---- MODULE Spec2Model ----
(***************************************************************************)
(* Model of mac-host-assess: the planner / executor / tools / advance /    *)
(* reporter graph of src/mac_assess/agent.py, the AssessmentPlan of        *)
(* src/mac_assess/state.py, the planner's free-text plan parsing, the      *)
(* command runner and the tools of src/mac_assess/tools, the provider      *)
(* configuration of src/mac_assess/llm.py and the command line of          *)
(* src/mac_assess/cli.py.                                                  *)
(*                                                                         *)
(* Text is a sequence of one-character strings ("\n" is the line break);   *)
(* a fixed phrase may stand in it as one string.                           *)
(* An Optional value is a sequence of length 0 (None) or 1 (the value).    *)
(***************************************************************************)
EXTENDS Integers, Sequences, FiniteSets, TLC

\* ------------------------------------------------------------------ bounds

\* the most executor responses of one run that request tools
MaxToolTurns == 1
\* the most tool calls one executor response requests
MaxCalls == 2
\* the longest steps list of a plan built directly (AssessmentPlan API)
MaxPlanSteps == 3
\* the most advance() calls applied to a plan built directly
MaxAdvance == 5
\* the most numbered step lines of a well-formed planner response
MaxListed == 2
\* the most pieces an arbitrary planner response is put together from
MaxPieces == 3
\* the most lines one interactive session reads at its objective prompt
MaxPrompts == 2

\* ------------------------------------------------------------------ text

None == <<>>
Some(x) == <<x>>

WS == {" ", "\n", "\t"}
Digits == {"0", "1", "2", "3", "4", "5", "6", "7", "8", "9"}

RECURSIVE LStrip(_)
LStrip(s) == IF s # <<>> /\ Head(s) \in WS THEN LStrip(Tail(s)) ELSE s

RECURSIVE RStrip(_)
RStrip(s) ==
    IF s # <<>> /\ s[Len(s)] \in WS THEN RStrip(SubSeq(s, 1, Len(s) - 1)) ELSE s

\* str.strip()
Strip(s) == RStrip(LStrip(s))

\* str.startswith(p)
StartsWith(s, p) == Len(s) >= Len(p) /\ SubSeq(s, 1, Len(p)) = p

\* s[n:]
Drop(s, n) == SubSeq(s, n + 1, Len(s))

\* str.split(sep) for a one-character sep: always at least one piece
RECURSIVE SplitAcc(_, _, _)
SplitAcc(s, sep, cur) ==
    IF s = <<>> THEN <<cur>>
    ELSE IF Head(s) = sep THEN <<cur>> \o SplitAcc(Tail(s), sep, <<>>)
    ELSE SplitAcc(Tail(s), sep, Append(cur, Head(s)))

Split(s, sep) == SplitAcc(s, sep, <<>>)

\* str.replace(p, ""): every non-overlapping occurrence, left to right
RECURSIVE Remove(_, _)
Remove(s, p) ==
    IF s = <<>> THEN <<>>
    ELSE IF StartsWith(s, p) THEN Remove(Drop(s, Len(p)), p)
    ELSE <<Head(s)>> \o Remove(Tail(s), p)

\* variant, str.split(sep)[-1]: the text after the last sep
RECURSIVE AfterLast(_, _)
AfterLast(s, sep) ==
    IF \A i \in 1..Len(s) : s[i] # sep THEN s
    ELSE IF Head(s) = sep THEN AfterLast(Tail(s), sep)
    ELSE AfterLast(Tail(s), sep)

\* str.split(sep, 1)[-1]: the text after the first sep, or all of s without one
RECURSIVE AfterFirst(_, _)
AfterFirst(s, sep) ==
    IF \A i \in 1..Len(s) : s[i] # sep THEN s
    ELSE IF Head(s) = sep THEN Tail(s)
    ELSE AfterFirst(Tail(s), sep)

KwObjective == <<"O", "B", "J", "E", "C", "T", "I", "V", "E", ":">>
KwSteps == <<"S", "T", "E", "P", "S", ":">>
DefaultObjective == <<"Security assessment">>
NoneText == <<"N", "o", "n", "e">>

\* ------------------------------------------------------------------ AssessmentPlan

AssessmentPlan(objective, steps) ==
    [objective |-> objective, steps |-> steps, current_step |-> 0]

next_step(p) ==
    IF p.current_step < Len(p.steps) THEN Some(p.steps[p.current_step + 1]) ELSE None

\* variant: the cursor moves two steps at a time
advance_by_two(p) == [p EXCEPT !.current_step = p.current_step + 2]

\* variant: the step that is done is taken off the list
advance_consuming(p) == [p EXCEPT !.steps = Tail(p.steps)]

advance(p) == [p EXCEPT !.current_step = p.current_step + 1]

\* variant: complete only once the cursor is past the end
is_complete_strict(p) == p.current_step > Len(p.steps)

is_complete(p) == p.current_step >= Len(p.steps)

\* ------------------------------------------------------------------ plan parsing

\* one line of planner_node's step branch: the step it appends, or none
ParseStepLine(line) ==
    LET step == Strip(line)
        cut == IF Head(step) \in Digits THEN Strip(AfterFirst(step, "."))
               ELSE IF StartsWith(step, <<"-">>) THEN Strip(Drop(step, 1))
               ELSE step
    IN  IF cut # <<>> THEN Some(cut) ELSE None

\* the loop over the lines, carrying (objective, steps, parsing_steps)
RECURSIVE ParseLines(_, _, _, _)
ParseLines(lines, objective, steps, parsing_steps) ==
    IF lines = <<>> THEN [objective |-> objective, steps |-> steps]
    ELSE LET line == Head(lines)
             rest == Tail(lines)
         IN  IF StartsWith(line, KwObjective)
                 THEN ParseLines(rest, Strip(Remove(line, KwObjective)), steps, parsing_steps)
             ELSE IF StartsWith(line, KwSteps)
                 THEN ParseLines(rest, objective, steps, TRUE)
             ELSE IF parsing_steps /\ Strip(line) # <<>>
                 THEN ParseLines(rest, objective, steps \o ParseStepLine(line), parsing_steps)
             ELSE ParseLines(rest, objective, steps, parsing_steps)

\* variant: an objective that was not found stays empty
ParsePlan_without_default(content) ==
    LET r == ParseLines(Split(Strip(content), "\n"), <<>>, <<>>, FALSE)
    IN  AssessmentPlan(r.objective, r.steps)

ParsePlan(content) ==
    LET r == ParseLines(Split(Strip(content), "\n"), <<>>, <<>>, FALSE)
    IN  AssessmentPlan(IF r.objective # <<>> THEN r.objective ELSE DefaultObjective, r.steps)

\* ------------------------------------------------------------------ commands (tools/base.py)

\* str(n) for a digit
DigitStr(d) == <<"0", "1", "2", "3", "4", "5", "6", "7", "8", "9">>[d + 1]

RECURSIVE NatStr(_)
NatStr(n) == IF n < 10 THEN <<DigitStr(n)>> ELSE NatStr(n \div 10) \o <<DigitStr(n % 10)>>

\* an integer in an f-string
IntStr(n) == IF n < 0 THEN <<"-">> \o NatStr(0 - n) ELSE NatStr(n)

CommandResult(stdout, stderr, returncode) ==
    [stdout |-> stdout, stderr |-> stderr, returncode |-> returncode]

\* CommandResult.success
success(result) == result.returncode = 0

\* CommandResult.output
output(result) == IF result.stdout # <<>> THEN result.stdout ELSE result.stderr

\* what one subprocess.run call does: the command exits, the timeout expires,
\* or another exception is raised
ExitOutcome(stdout, stderr, returncode) ==
    [kind |-> "exit", stdout |-> stdout, stderr |-> stderr, returncode |-> returncode, text |-> <<>>]
TimeoutOutcome ==
    [kind |-> "timeout", stdout |-> <<>>, stderr |-> <<>>, returncode |-> 0, text |-> <<>>]
ErrorOutcome(text) ==
    [kind |-> "error", stdout |-> <<>>, stderr |-> <<>>, returncode |-> 0, text |-> text]

\* the CommandResult run_command builds from the outcome of subprocess.run
ResultOf(outcome, timeout) ==
    CASE outcome.kind = "exit" ->
            CommandResult(outcome.stdout, outcome.stderr, outcome.returncode)
      [] outcome.kind = "timeout" ->
            CommandResult(<<>>, <<"Command timed out after ">> \o IntStr(timeout) \o <<"s">>, -1)
      [] outcome.kind = "error" ->
            CommandResult(<<>>, outcome.text, -1)

\* variant: a command that timed out is run a second time
run_command_retrying(outcomes, timeout) ==
    IF outcomes[1].kind = "timeout" /\ Len(outcomes) > 1
        THEN [result |-> ResultOf(outcomes[2], timeout), attempts |-> 2]
        ELSE [result |-> ResultOf(outcomes[1], timeout), attempts |-> 1]

\* run_command: outcomes[i] is what the i-th subprocess.run call of this
\* command would do; attempts is the number of calls made
run_command(outcomes, timeout) ==
    [result |-> ResultOf(outcomes[1], timeout), attempts |-> 1]

\* variant: the return code is reported for every result
format_command_output_always_code(result, include_stderr, include_returncode) ==
    LET with_stderr ==
            IF include_stderr /\ result.stderr # <<>>
                THEN IF result.stdout # <<>>
                         THEN result.stdout \o <<"\n", "STDERR: ">> \o result.stderr
                         ELSE result.stderr
                ELSE result.stdout
    IN  with_stderr \o <<"\n", "Return code: ">> \o IntStr(result.returncode)

format_command_output(result, include_stderr, include_returncode) ==
    LET with_stderr ==
            IF include_stderr /\ result.stderr # <<>>
                THEN IF result.stdout # <<>>
                         THEN result.stdout \o <<"\n", "STDERR: ">> \o result.stderr
                         ELSE result.stderr
                ELSE result.stdout
        with_code ==
            IF include_returncode /\ ~success(result)
                THEN with_stderr \o <<"\n", "Return code: ">> \o IntStr(result.returncode)
                ELSE with_stderr
    IN  IF with_code # <<>> THEN with_code ELSE <<"(no output)">>

\* ------------------------------------------------------------------ tools (tools/*)

\* the concatenation of a sequence of sequences
RECURSIVE Flatten(_)
Flatten(ss) == IF ss = <<>> THEN <<>> ELSE Head(ss) \o Flatten(Tail(ss))

\* "\n".join(parts)
RECURSIVE Join(_)
Join(parts) ==
    IF parts = <<>> THEN <<>>
    ELSE IF Len(parts) = 1 THEN parts[1]
    ELSE parts[1] \o <<"\n">> \o Join(Tail(parts))

\* the tools that return result.output of their one command
OutputTools ==
    {"get_current_user", "list_keychains", "find_ssh_keys", "get_network_connections",
     "get_network_interfaces", "list_running_processes", "list_installed_apps"}

\* the tools that return the stdout of each of their commands, joined
StdoutTools == {"find_aws_credentials", "list_launch_agents"}

ToolNames ==
    OutputTools \cup StdoutTools \cup
    {"get_system_info", "find_cloud_configs", "find_browser_data", "find_sensitive_files",
     "run_shell_command"}

\* the headings of the tools that run one command per entry of a table
Headings(name) ==
    CASE name = "get_system_info" -> <<"hostname", "os_version", "hardware">>
      [] name = "find_cloud_configs" ->
            <<"AWS (~/.aws)", "GCP (~/.config/gcloud)", "Azure (~/.azure)", "Kubernetes (~/.kube)">>
      [] name = "find_browser_data" -> <<"Chrome", "Firefox", "Safari", "Edge", "Brave">>

\* the number of commands a tool runs
CommandsOf(name) ==
    CASE name \in StdoutTools -> 2
      [] name \in {"get_system_info", "find_cloud_configs", "find_browser_data"} -> Len(Headings(name))
      [] OTHER -> 1

\* the timeout a tool passes to run_command
TimeoutOf(name) == IF name = "find_sensitive_files" THEN 60 ELSE 30

Section(heading, result) == <<"=== ", heading, " ===", "\n">> \o result.stdout

get_system_info(results) ==
    Join([i \in 1..Len(results) |-> Section(Headings("get_system_info")[i], results[i])])

RECURSIVE SuccessfulSections(_, _, _)
SuccessfulSections(name, results, i) ==
    IF i > Len(results) THEN <<>>
    ELSE (IF success(results[i]) THEN <<Section(Headings(name)[i], results[i])>> ELSE <<>>)
             \o SuccessfulSections(name, results, i + 1)

find_cloud_configs(results) ==
    LET found == SuccessfulSections("find_cloud_configs", results, 1)
    IN  IF found # <<>> THEN Join(found) ELSE <<"No cloud config directories found">>

find_browser_data(results) ==
    LET found == SuccessfulSections("find_browser_data", results, 1)
    IN  IF found # <<>> THEN Join(found) ELSE <<"No browser data found">>

find_sensitive_files(results) ==
    IF results[1].stdout # <<>> THEN results[1].stdout ELSE <<"No sensitive files found">>

run_shell_command(results) == format_command_output(results[1], TRUE, TRUE)

\* the text a tool returns, given the results of the commands it ran
ToolText(name, results) ==
    CASE name \in OutputTools -> output(results[1])
      [] name \in StdoutTools -> Join([i \in 1..Len(results) |-> results[i].stdout])
      [] name = "get_system_info" -> get_system_info(results)
      [] name = "find_cloud_configs" -> find_cloud_configs(results)
      [] name = "find_browser_data" -> find_browser_data(results)
      [] name = "find_sensitive_files" -> find_sensitive_files(results)
      [] name = "run_shell_command" -> run_shell_command(results)

\* ------------------------------------------------------------------ LLM configuration (llm.py)

Providers == {"anthropic", "openai", "google", "vertex"}

\* truth value of an Optional[str]
Truthy(x) == x # None /\ x[1] # <<>>

\* a or b
Or(a, b) == IF Truthy(a) THEN a ELSE b

LLMConfig(provider, model, api_key, project_id) ==
    [provider |-> provider, model |-> model, api_key |-> api_key, project_id |-> project_id]

DefaultModel(provider) ==
    CASE provider = "anthropic" -> <<"claude-sonnet-4-20250514">>
      [] provider = "openai" -> <<"gpt-4o">>
      [] provider = "google" -> <<"gemini-2.0-flash">>
      [] provider = "vertex" -> <<"gemini-2.0-flash">>

get_default_model(config) ==
    IF Truthy(config.model) THEN config.model[1] ELSE DefaultModel(config.provider)

\* str.lower() on the provider names that are tried
Lower(name) == IF name = "OpenAI" THEN "openai" ELSE name

\* configure: the new _current_config, or the ValueError of Provider(...)
configure(provider, model, api_key, project_id) ==
    IF Lower(provider) \in Providers
        THEN [ok |-> TRUE, config |-> Some(LLMConfig(Lower(provider), model, api_key, project_id))]
        ELSE [ok |-> FALSE, config |-> None]

get_config(current) ==
    IF current = None THEN LLMConfig("anthropic", None, None, None) ELSE current[1]

EnvVar(provider) ==
    CASE provider = "anthropic" -> "ANTHROPIC_API_KEY"
      [] provider = "openai" -> "OPENAI_API_KEY"
      [] provider = "google" -> "GOOGLE_API_KEY"
      [] provider = "vertex" -> "GOOGLE_CLOUD_PROJECT"

EnvVars == {EnvVar(p) : p \in Providers}

\* variant: the environment variable wins over the explicit key
api_key_env_first(config, environ) == Or(environ[EnvVar(config.provider)], config.api_key)

\* config.api_key or os.environ.get(<the provider's variable>)
api_key_of(config, environ) == Or(config.api_key, environ[EnvVar(config.provider)])

ChatModel(provider, model, api_key, project) ==
    [provider |-> provider, model |-> model, api_key |-> api_key, project |-> project]

\* create_llm: the chat model built from the current configuration, or the
\* ValueError raised because no API key is available; the Vertex client is
\* built without any check
create_llm(current, environ) ==
    LET config == get_config(current)
        model == get_default_model(config)
    IN  IF config.provider = "vertex"
            THEN [ok |-> TRUE,
                  llm |-> Some(ChatModel("vertex", model, None,
                                         Or(config.project_id, environ["GOOGLE_CLOUD_PROJECT"])))]
        ELSE IF Truthy(api_key_of(config, environ))
            THEN [ok |-> TRUE,
                  llm |-> Some(ChatModel(config.provider, model, api_key_of(config, environ), None))]
        ELSE [ok |-> FALSE, llm |-> None]

\* ------------------------------------------------------------------ messages

VARIABLES
    pc,        \* the node the graph runs next; "END" after the reporter, "failed" after an exception
    messages,  \* AgentState["messages"], the transcript
    plan,      \* AgentState["plan"]: None or Some(AssessmentPlan)
    phase,     \* AgentState["phase"]
    trace,     \* history: the nodes (or plan methods) that have run, in order
    calls,     \* history: the names of the registered tools that were run, in the order they finished
    ret,       \* the value the last function called directly returned
    arg,       \* the input of the last function called directly
    config,    \* llm._current_config: None or Some(LLMConfig)
    environ,   \* os.environ: the credential variables, each None or Some(text)
    client,    \* the chat model the last create_llm call returned, None before
    out,       \* the status lines printed on the console
    status     \* the exit status of the process: None while it runs

vars == <<pc, messages, plan, phase, trace, calls, ret, arg, config, environ, client, out, status>>

\* the state of the process around the graph
cliVars == <<config, environ, out, status>>

\* a message not yet seen by the reducer has no id (0)
Msg(type, content, tool_calls) ==
    [id |-> 0, type |-> type, content |-> content, tool_calls |-> tool_calls]

HumanMessage(content) == Msg("human", content, <<>>)
AIMessage(content, tool_calls) == Msg("ai", content, tool_calls)
ToolMessage(content) == Msg("tool", content, <<>>)

\* the add_messages reducer: a message whose id is already in the list replaces
\* that entry in place, any other message is appended (with a fresh id when it
\* has none)
\* variant: a plain list concatenation as the reducer
concat_messages(left, right) == left \o right

RECURSIVE add_messages(_, _)
add_messages(left, right) ==
    LET merge(l, r) ==
            IF r = <<>> THEN l
            ELSE LET m == IF Head(r).id = 0 THEN [Head(r) EXCEPT !.id = Len(l) + 1]
                          ELSE Head(r)
                     at == {i \in 1..Len(l) : l[i].id = m.id}
                 IN  IF at # {}
                         THEN add_messages([l EXCEPT ![CHOOSE i \in at : TRUE] = m], Tail(r))
                         ELSE add_messages(Append(l, m), Tail(r))
    \* both lists are evaluated once and then merged
    IN  CHOOSE x \in {merge(l, r) : l \in {left}, r \in {right}} : TRUE

\* ------------------------------------------------------------------ inputs

Objective == <<"list SSH keys">>

\* OBJECTIVE: A / STEPS: / 1. Y / 2. Z
RespTwoSteps ==
    KwObjective \o <<" ", "A", "\n">> \o KwSteps \o <<"\n", "1", ".", " ", "Y", "\n", "2", ".", " ", "Z">>
\* STEPS: / - Y          (no OBJECTIVE line, one bulleted step)
RespOneStep == KwSteps \o <<"\n", "-", " ", "Y">>
\* OBJECTIVE: A          (no STEPS section)
RespNoSteps == KwObjective \o <<" ", "A">>
\* hi                    (malformed)
RespMalformed == <<"h", "i">>
\* X / STEPS: / (blank) /  1. / Y    (a line before STEPS:, a blank line, a bare number)
RespOdd == <<"X", "\n">> \o KwSteps \o <<"\n", "\n", " ", "1", ".", "\n", "Y">>

PlannerResponses == {RespTwoSteps, RespOneStep, RespNoSteps, RespMalformed, RespOdd}

\* names an executor response may ask for: one of ALL_TOOLS and one that is not
RegisteredTools == {"find_ssh_keys"}
RequestedNames == RegisteredTools \cup {"no_such_tool"}

SeqsUpTo(S, n) == UNION {[1..k -> S] : k \in 0..n}

ToolCallLists == SeqsUpTo(RequestedNames, MaxCalls)

\* ------------------------------------------------------------------ nodes

\* executor responses so far that requested tools
ToolTurns == Cardinality({i \in 1..Len(messages) : messages[i].tool_calls # <<>>})

\* the longest plan a planner response of the model parses to
RECURSIVE MaxOf(_)
MaxOf(S) ==
    IF S = {} THEN 0
    ELSE LET x == CHOOSE y \in S : TRUE
             m == MaxOf(S \ {x})
         IN  IF x > m THEN x ELSE m

LongestPlan == MaxOf({Len(ParsePlan(r).steps) : r \in PlannerResponses})

\* the longest transcript of a run within the bounds: objective, plan, one
\* executor turn per cursor value and per tool turn, the tool results, the report
MaxTranscript == 4 + 2 * (LongestPlan + 1 + MaxToolTurns) + MaxToolTurns * MaxCalls

\* variant: the completeness of the plan is looked at before the tool calls
should_continue_plan_first(msgs, pl, ph) ==
    LET last_message == msgs[Len(msgs)]
    IN  IF pl # None /\ is_complete(pl[1]) THEN "report"
        ELSE IF last_message.tool_calls # <<>> THEN "tools"
        ELSE IF ph = "executing" THEN "advance"
        ELSE "executor"

\* variant: a step that is done is executed again instead of advanced past
should_continue_no_advance(msgs, pl, ph) ==
    LET last_message == msgs[Len(msgs)]
    IN  IF last_message.tool_calls # <<>> THEN "tools"
        ELSE IF pl # None /\ is_complete(pl[1]) THEN "report"
        ELSE "executor"

should_continue(msgs, pl, ph) ==
    LET last_message == msgs[Len(msgs)]
    IN  IF last_message.tool_calls # <<>> THEN "tools"
        ELSE IF pl # None /\ is_complete(pl[1]) THEN "report"
        ELSE IF ph = "executing" THEN "advance"
        ELSE "executor"

\* the conditional edges out of the executor
EdgeFrom(route) ==
    CASE route = "tools" -> "tools"
      [] route = "advance" -> "advance"
      [] route = "report" -> "reporter"
      [] route = "executor" -> "executor"

\* variant: the planning instruction is stored in the transcript as well
planner_update_with_prompt(msgs, response) ==
    add_messages(msgs, msgs \o <<Msg("system", <<"PLANNER_PROMPT">>, <<>>), response>>)

\* the messages channel after planner_node's return value went through the reducer
planner_update(msgs, response) == add_messages(msgs, msgs \o <<response>>)

\* variant: the planner leaves the phase as it was
PhaseAfterPlanning_unchanged == "planning"

\* the phase planner_node returns
PhaseAfterPlanning == "executing"

planner_node(content) ==
    /\ pc = "planner"
    /\ create_llm(config, environ).ok
    /\ client' = create_llm(config, environ).llm
    /\ plan' = Some(ParsePlan(content))
    /\ phase' = PhaseAfterPlanning
    /\ messages' = planner_update(messages, AIMessage(content, <<>>))
    /\ pc' = "executor"
    /\ trace' = Append(trace, "planner")
    /\ UNCHANGED <<calls, ret, arg, cliVars>>

StepPrompt(current_step) ==
    <<"Current assessment step: ">>
        \o (IF current_step = None THEN NoneText ELSE current_step[1])
        \o <<"\n", "\n", "Execute this step using the available tools.">>

\* variant: the step prompt is sent to the LLM but not stored
executor_update_response_only(msgs, step_prompt, response) ==
    add_messages(msgs, msgs \o <<response>>)

executor_update(msgs, step_prompt, response) ==
    add_messages(msgs, msgs \o <<HumanMessage(step_prompt), response>>)

executor_node(tool_calls) ==
    /\ pc = "executor"
    /\ create_llm(config, environ).ok
    /\ client' = create_llm(config, environ).llm
    /\ Len(messages) + 2 <= MaxTranscript
    /\ tool_calls # <<>> => ToolTurns < MaxToolTurns
    /\ LET current_step == IF plan # None THEN next_step(plan[1])
                           ELSE Some(<<"Perform a general security assessment">>)
           response == AIMessage(<<"summary">>, tool_calls)
           msgs == executor_update(messages, StepPrompt(current_step), response)
       IN  /\ messages' = msgs
           /\ pc' = EdgeFrom(should_continue(msgs, plan, phase))
    /\ trace' = Append(trace, "executor")
    /\ UNCHANGED <<plan, phase, calls, ret, arg, cliVars>>

\* variant: a name that is not registered is run like any tool
ToolResult_unchecked(name) == ToolMessage(<<"output of ", name>>)

\* ToolNode: one ToolMessage per requested call, in the order requested; a
\* name that is not registered gets an error message and runs nothing
ToolResult(name) ==
    IF name \in RegisteredTools THEN ToolMessage(<<"output of ", name>>)
    ELSE ToolMessage(<<"Error: ", name, " is not a valid tool">>)

RECURSIVE SelectSeq2(_, _)
SelectSeq2(s, S) ==
    IF s = <<>> THEN <<>>
    ELSE (IF Head(s) \in S THEN <<Head(s)>> ELSE <<>>) \o SelectSeq2(Tail(s), S)

\* the orders in which k concurrently running tools can finish
FinishOrders(k) == {f \in [1..k -> 1..k] : \A i, j \in 1..k : i # j => f[i] # f[j]}

\* variant: the results are collected as the tools finish
ToolOutputs_as_finished(requested, order) ==
    [i \in 1..Len(requested) |-> ToolResult(requested[order[i]])]

\* ToolNode maps the calls over a thread pool and collects the results in the
\* order of the calls, whatever the order (order[1], order[2], ...) they finish in
ToolOutputs(requested, order) ==
    [i \in 1..Len(requested) |-> ToolResult(requested[i])]

tool_node ==
    /\ pc = "tools"
    /\ LET requested == messages[Len(messages)].tool_calls
       IN  \E order \in FinishOrders(Len(requested)) :
               /\ messages' = add_messages(messages, ToolOutputs(requested, order))
               /\ calls' = calls \o SelectSeq2([i \in 1..Len(requested) |-> requested[order[i]]],
                                               RegisteredTools)
    /\ pc' = "executor"
    /\ trace' = Append(trace, "tools")
    /\ UNCHANGED <<plan, phase, ret, arg, client, cliVars>>

\* variant: advance hands a plan that has just become complete to the reporter
AfterAdvance_report_when_done(pl) ==
    IF pl # None /\ is_complete(pl[1]) THEN "reporter" ELSE "executor"

\* the edge out of advance, whatever the plan
AfterAdvance(pl) == "executor"

advance_plan ==
    /\ pc = "advance"
    /\ plan' = IF plan # None THEN Some(advance(plan[1])) ELSE plan
    /\ messages' = add_messages(messages, messages)
    /\ pc' = AfterAdvance(plan')
    /\ trace' = Append(trace, "advance")
    /\ UNCHANGED <<phase, calls, ret, arg, client, cliVars>>

ReportPrompt == <<"Based on all the findings from this assessment, generate a security report.">>

reporter_update(msgs, response) ==
    add_messages(msgs, msgs \o <<HumanMessage(ReportPrompt), response>>)

\* variant: the reporter hands back to the executor
AfterReporterLoop == "executor"

\* the edge out of the reporter
AfterReporter == "END"

reporter_node ==
    /\ pc = "reporter"
    /\ create_llm(config, environ).ok
    /\ client' = create_llm(config, environ).llm
    /\ phase' = "complete"
    /\ messages' = reporter_update(messages, AIMessage(<<"report">>, <<>>))
    /\ pc' = AfterReporter
    /\ trace' = Append(trace, "reporter")
    /\ UNCHANGED <<plan, calls, ret, arg, cliVars>>

\* variant: the handler reports the error and the graph goes on to the report
llm_error_swallowed ==
    /\ pc \in {"planner", "executor"}
    /\ create_llm(config, environ).ok
    /\ client' = create_llm(config, environ).llm
    /\ pc' = "reporter"
    /\ out' = Append(out, "Error during assessment")
    /\ UNCHANGED <<messages, plan, phase, trace, calls, ret, arg, config, environ, status>>

\* llm.invoke raises inside a node: the node returns nothing, the exception
\* leaves agent.stream, and run_assessment prints it and exits with status 1
llm_error ==
    /\ pc \in {"planner", "executor", "reporter"}
    /\ create_llm(config, environ).ok
    /\ client' = create_llm(config, environ).llm
    /\ pc' = "failed"
    /\ out' = Append(out, "Error during assessment")
    /\ status' = Some(1)
    /\ UNCHANGED <<messages, plan, phase, trace, calls, ret, arg, config, environ>>

NoRet == [op |-> "none", val |-> None, flag |-> FALSE]

NoEnviron == [v \in EnvVars |-> None]

\* run_assessment's initial_state, after the reducer has seen the input; the
\* provider is configured with an explicit API key
Init ==
    /\ pc = "planner"
    /\ messages = add_messages(<<>>, <<HumanMessage(Objective)>>)
    /\ plan = None
    /\ phase = "planning"
    /\ trace = <<>>
    /\ calls = <<>>
    /\ ret = NoRet
    /\ arg = None
    /\ config = configure("anthropic", None, Some(<<"sk-arg">>), None).config
    /\ environ = NoEnviron
    /\ client = None
    /\ out = <<>>
    /\ status = None

Next ==
    \/ \E content \in PlannerResponses : planner_node(content)
    \/ \E tool_calls \in ToolCallLists : executor_node(tool_calls)
    \/ tool_node
    \/ advance_plan
    \/ reporter_node
    \/ llm_error

Spec == Init /\ [][Next]_vars

\* the graph with every LLM call returning; which actions are taken is the
\* scheduler's choice alone (one node at a time, each runs when it is next), and
\* the LLM stops asking for tools after MaxToolTurns requests
NextLive ==
    \/ \E content \in PlannerResponses : planner_node(content)
    \/ \E tool_calls \in ToolCallLists : executor_node(tool_calls)
    \/ tool_node
    \/ advance_plan
    \/ reporter_node

SpecLive == Init /\ [][NextLive]_vars /\ WF_vars(NextLive)

\* ------------------------------------------------------------------ AssessmentPlan, called directly

StepTexts == {<<"Y">>, <<"Z">>}

InitPlan ==
    /\ pc = "api"
    /\ messages = <<>>
    /\ plan \in {Some(AssessmentPlan(DefaultObjective, steps)) :
                    steps \in SeqsUpTo(StepTexts, MaxPlanSteps)}
    /\ phase = "planning"
    /\ trace = <<>>
    /\ calls = <<>>
    /\ ret = NoRet
    /\ arg = None
    /\ config = None
    /\ environ = NoEnviron
    /\ client = None
    /\ out = <<>>
    /\ status = None

call_advance ==
    /\ pc = "api"
    /\ plan[1].current_step < MaxAdvance
    /\ plan' = Some(advance(plan[1]))
    /\ ret' = [op |-> "advance", val |-> None, flag |-> FALSE]
    /\ UNCHANGED <<pc, messages, phase, trace, calls, arg, client, cliVars>>

call_next_step ==
    /\ pc = "api"
    /\ ret' = [op |-> "next_step", val |-> next_step(plan[1]), flag |-> FALSE]
    /\ UNCHANGED <<pc, messages, plan, phase, trace, calls, arg, client, cliVars>>

call_is_complete ==
    /\ pc = "api"
    /\ ret' = [op |-> "is_complete", val |-> None, flag |-> is_complete(plan[1])]
    /\ UNCHANGED <<pc, messages, plan, phase, trace, calls, arg, client, cliVars>>

NextPlan ==
    \/ call_advance
    \/ call_next_step
    \/ call_is_complete

SpecPlan == InitPlan /\ [][NextPlan]_vars

\* ------------------------------------------------------------------ run_command, format_command_output and the tools, called directly

StdoutTexts == {<<>>, <<"o">>}
StderrTexts == {<<>>, <<"e">>}
ReturnCodes == {0, 1, -1}
Timeouts == {30, 60}

Outcomes ==
    {ExitOutcome(o, e, n) : o \in StdoutTexts, e \in StderrTexts, n \in ReturnCodes}
        \cup {TimeoutOutcome, ErrorOutcome(<<"[Errno 2] No such file">>), ErrorOutcome(<<>>)}

\* the outcomes tried for each command of a tool that runs several
FewOutcomes == {ExitOutcome(<<"o">>, <<>>, 0), ExitOutcome(<<>>, <<"e">>, 1), TimeoutOutcome}

OutcomesOf(name) == IF CommandsOf(name) = 1 THEN Outcomes ELSE FewOutcomes

InitTools ==
    /\ pc = "tools_api"
    /\ messages = <<>>
    /\ plan = None
    /\ phase = "planning"
    /\ trace = <<>>
    /\ calls = <<>>
    /\ ret = NoRet
    /\ arg = None
    /\ config = None
    /\ environ = NoEnviron
    /\ client = None
    /\ out = <<>>
    /\ status = None

Returned == /\ pc' = "returned"
            /\ UNCHANGED <<messages, plan, phase, trace, calls, client, cliVars>>

call_run_command ==
    /\ pc = "tools_api"
    /\ \E first \in Outcomes, second \in Outcomes, timeout \in Timeouts :
          /\ arg' = [outcomes |-> <<first, second>>, timeout |-> timeout]
          /\ ret' = [op |-> "run_command", val |-> run_command(<<first, second>>, timeout), flag |-> FALSE]
    /\ Returned

call_format_command_output ==
    /\ pc = "tools_api"
    /\ \E outcome \in Outcomes, timeout \in Timeouts, include_stderr \in BOOLEAN, include_returncode \in BOOLEAN :
          LET result == run_command(<<outcome>>, timeout).result
          IN  /\ arg' = [result |-> result, include_stderr |-> include_stderr,
                         include_returncode |-> include_returncode]
              /\ ret' = [op |-> "format_command_output",
                         val |-> format_command_output(result, include_stderr, include_returncode),
                         flag |-> FALSE]
    /\ Returned

\* a tool runs its commands one after the other and formats their results
call_tool(name) ==
    /\ pc = "tools_api"
    /\ \E outcomes \in [1..CommandsOf(name) -> OutcomesOf(name)] :
          LET results == [i \in 1..CommandsOf(name) |->
                              run_command(<<outcomes[i]>>, TimeoutOf(name)).result]
          IN  /\ arg' = [tool |-> name, results |-> results]
              /\ ret' = [op |-> "tool", val |-> ToolText(name, results), flag |-> FALSE]
    /\ Returned

NextTools ==
    \/ call_run_command
    \/ call_format_command_output
    \/ \E name \in ToolNames : call_tool(name)

SpecTools == InitTools /\ [][NextTools]_vars

\* ------------------------------------------------------------------ the command line (cli.py)

\* the values tried for --provider, --model, --api-key and --project
ProviderArgs == Providers \cup {"OpenAI", "bogus"}
ModelArgs == {None, Some(<<"my-model">>)}
ApiKeyArgs == {None, Some(<<>>), Some(<<"sk-arg">>)}
ProjectArgs == {None, Some(<<"my-project">>)}

\* the environments tried: no variable set, every variable set, only Anthropic's set
FullEnviron == [v \in EnvVars |-> Some(<<"env:", v>>)]
Environs ==
    {NoEnviron, FullEnviron,
     [v \in EnvVars |-> IF v = "ANTHROPIC_API_KEY" THEN Some(<<"env:", v>>) ELSE None]}

InitCli ==
    /\ pc = "main"
    /\ messages = <<>>
    /\ plan = None
    /\ phase = "planning"
    /\ trace = <<>>
    /\ calls = <<>>
    /\ ret = NoRet
    /\ arg = None
    /\ config = None
    /\ environ \in Environs
    /\ client = None
    /\ out = <<>>
    /\ status = None

\* main with an objective: argparse accepts only the four provider names
\* (exit status 2 otherwise), configure stores the configuration or raises
\* ValueError (exit status 1), then run_assessment is called
main(provider, model, api_key, project) ==
    /\ pc = "main"
    /\ arg' = [provider |-> provider, model |-> model, api_key |-> api_key, project |-> project,
               interactive |-> FALSE]
    /\ IF provider \notin Providers
           THEN /\ out' = Append(out, "usage error")
                /\ status' = Some(2)
                /\ pc' = "exited"
                /\ UNCHANGED config
       ELSE IF ~configure(provider, model, api_key, project).ok
           THEN /\ out' = Append(out, "Configuration error")
                /\ status' = Some(1)
                /\ pc' = "exited"
                /\ UNCHANGED config
       ELSE /\ config' = configure(provider, model, api_key, project).config
            /\ pc' = "run_assessment"
            /\ UNCHANGED <<out, status>>
    /\ UNCHANGED <<messages, plan, phase, trace, calls, ret, environ, client>>

\* variant: the transcript of the assessment before is kept
initial_messages_carried_over(msgs, objective) ==
    add_messages(msgs, <<HumanMessage(objective)>>)

\* initial_state["messages"], after the reducer has seen it; msgs is the
\* transcript the assessment before ended with
initial_messages(msgs, objective) == add_messages(<<>>, <<HumanMessage(objective)>>)

\* run_assessment up to the first node: the banner is printed, a new graph
\* is built and started on a new initial state; trace and calls start again
\* with the run
StartAssessment(objective) ==
    /\ messages' = initial_messages(messages, objective)
    /\ plan' = None
    /\ phase' = "planning"
    /\ pc' = "planner"
    /\ trace' = <<>>
    /\ calls' = <<>>

run_assessment ==
    /\ pc = "run_assessment"
    /\ StartAssessment(Objective)
    /\ out' = Append(out, "Starting macOS Security Assessment")
    /\ UNCHANGED <<ret, arg, client, config, environ, status>>

\* interactive mode was asked for on the command line
Interactive == arg # None /\ arg.interactive

\* variant: the error is printed and the session goes back to its prompt
create_llm_error_back_to_prompt ==
    /\ pc \in {"planner", "executor", "reporter"}
    /\ ~create_llm(config, environ).ok
    /\ pc' = "prompt"
    /\ out' = Append(out, "Error during assessment")
    /\ UNCHANGED <<messages, plan, phase, trace, calls, ret, arg, config, environ, client, status>>

\* create_llm raises ValueError at the start of a node: no chat model is
\* built and llm.invoke is not reached; run_assessment prints the exception
\* and exits with status 1
create_llm_error ==
    /\ pc \in {"planner", "executor", "reporter"}
    /\ ~create_llm(config, environ).ok
    /\ pc' = "failed"
    /\ out' = Append(out, "Error during assessment")
    /\ status' = Some(1)
    /\ UNCHANGED <<messages, plan, phase, trace, calls, ret, arg, config, environ, client>>

\* the stream is exhausted: run_assessment prints the closing line and main returns
finish ==
    /\ pc = "END"
    /\ ~Interactive
    /\ out' = Append(out, "Assessment Complete")
    /\ status' = Some(0)
    /\ pc' = "exited"
    /\ UNCHANGED <<messages, plan, phase, trace, calls, ret, arg, config, environ, client>>

NextCli ==
    \/ \E provider \in ProviderArgs, model \in ModelArgs, api_key \in ApiKeyArgs, project \in ProjectArgs :
          main(provider, model, api_key, project)
    \/ run_assessment
    \/ planner_node(RespOneStep)
    \/ \E tool_calls \in {<<>>, <<"find_ssh_keys">>} : executor_node(tool_calls)
    \/ tool_node
    \/ advance_plan
    \/ reporter_node
    \/ llm_error
    \/ create_llm_error
    \/ finish

SpecCli == InitCli /\ [][NextCli]_vars

\* ------------------------------------------------------------------ interactive mode (cli.py)

\* str.lower() on the letters that are typed
LowerChar(c) ==
    CASE c = "Q" -> "q" [] c = "U" -> "u" [] c = "I" -> "i" [] c = "T" -> "t"
      [] c = "E" -> "e" [] c = "X" -> "x" [] OTHER -> c

LowerText(s) == [i \in 1..Len(s) |-> LowerChar(s[i])]

QuitWords == {<<"q", "u", "i", "t">>, <<"e", "x", "i", "t">>, <<"q">>}

\* variant: the words are compared as they were typed
IsQuit_as_typed(objective) == objective \in QuitWords

\* objective.lower() in ("quit", "exit", "q")
IsQuit(objective) == LowerText(objective) \in QuitWords

\* the lines typed at the objective prompt
InputTexts ==
    {<<"q", "u", "i", "t">>, <<"E", "X", "I", "T">>, <<" ", "Q", " ">>, <<>>, <<" ", " ">>,
     <<"l", "s">>, <<" ", "q", "u", "i", "t", "s">>}

\* interactive_mode has been entered: the provider is configured, with an API
\* key or without one
InitInteractive ==
    /\ pc = "prompt"
    /\ messages = <<>>
    /\ plan = None
    /\ phase = "planning"
    /\ trace = <<>>
    /\ calls = <<>>
    /\ ret = NoRet
    /\ \E api_key \in {None, Some(<<"sk-arg">>)} :
          /\ arg = [provider |-> "anthropic", model |-> None, api_key |-> api_key, project |-> None,
                    interactive |-> TRUE]
          /\ config = configure("anthropic", None, api_key, None).config
    /\ environ = NoEnviron
    /\ client = None
    /\ out = <<>>
    /\ status = None

\* the number of times the objective prompt has been printed
Prompts == Cardinality({i \in 1..Len(out) : out[i] = "Objective:"})

\* one turn of the loop of interactive_mode: the prompt is printed and a line
\* is read; a quit word leaves the loop, "Goodbye!" is printed and main
\* returns; an empty line goes round again; anything else is the objective of
\* run_assessment
read_objective(text) ==
    /\ pc = "prompt"
    /\ Prompts < MaxPrompts
    /\ ret' = [op |-> "input", val |-> text, flag |-> FALSE]
    /\ LET objective == Strip(text)
       IN  IF IsQuit(objective)
               THEN /\ out' = out \o <<"Objective:", "Goodbye!">>
                    /\ status' = Some(0)
                    /\ pc' = "exited"
                    /\ UNCHANGED <<messages, plan, phase, trace, calls>>
           ELSE IF objective = <<>>
               THEN /\ out' = Append(out, "Objective:")
                    /\ UNCHANGED <<pc, messages, plan, phase, trace, calls, status>>
           ELSE /\ StartAssessment(objective)
                /\ out' = out \o <<"Objective:", "Starting macOS Security Assessment">>
                /\ UNCHANGED status
    /\ UNCHANGED <<arg, config, environ, client>>

\* KeyboardInterrupt, at the prompt or anywhere in a running assessment: it
\* is no Exception, so run_assessment lets it through to the loop, which
\* prints "Interrupted", leaves the loop and prints "Goodbye!"
interrupt ==
    /\ Interactive
    /\ pc \in {"prompt", "planner", "executor", "tools", "advance", "reporter", "END"}
    /\ ret' = [op |-> "KeyboardInterrupt", val |-> None, flag |-> FALSE]
    /\ out' = (IF pc = "prompt" THEN Append(out, "Objective:") ELSE out) \o <<"Interrupted", "Goodbye!">>
    /\ status' = Some(0)
    /\ pc' = "exited"
    /\ UNCHANGED <<messages, plan, phase, trace, calls, arg, config, environ, client>>

\* the stream is exhausted: run_assessment prints the closing line and
\* returns to the loop
finish_interactive ==
    /\ pc = "END"
    /\ Interactive
    /\ out' = Append(out, "Assessment Complete")
    /\ pc' = "prompt"
    /\ UNCHANGED <<messages, plan, phase, trace, calls, ret, arg, config, environ, client, status>>

NextInteractive ==
    \/ \E text \in InputTexts : read_objective(text)
    \/ interrupt
    \/ planner_node(RespOneStep)
    \/ \E tool_calls \in {<<>>, <<"find_ssh_keys">>} : executor_node(tool_calls)
    \/ tool_node
    \/ advance_plan
    \/ reporter_node
    \/ llm_error
    \/ create_llm_error
    \/ finish_interactive

SpecInteractive == InitInteractive /\ [][NextInteractive]_vars

\* ------------------------------------------------------------------ the planner on generated responses

ObjectiveTexts == {<<"A">>, <<"A", " ", "X">>, <<"v", "1", ".", "2">>}

ListedSteps == {<<"Y">>, <<"2", " ", "Z">>, <<"v", "1", ".", "2">>}

\* lines that may come before the STEPS: line
Preamble == <<"1", ".", " ", "P", "\n">>

\* OBJECTIVE: <o> / STEPS: / 1. <s_1> / ... / k. <s_k>, with the preamble
\* before the objective line (where = 1), after it (where = 2) or left out
WellFormed(o, steps, where) ==
    (IF where = 1 THEN Preamble ELSE <<>>)
        \o KwObjective \o <<" ">> \o o \o <<"\n">>
        \o (IF where = 2 THEN Preamble ELSE <<>>)
        \o KwSteps
        \o Flatten([i \in 1..Len(steps) |-> <<"\n">> \o IntStr(i) \o <<".", " ">> \o steps[i]])

WellFormedResponses ==
    {WellFormed(o, steps, where) :
        o \in ObjectiveTexts, steps \in SeqsUpTo(ListedSteps, MaxListed), where \in 0..2}

Pieces == {KwObjective, KwSteps, <<"\n">>, <<" ">>, <<"1">>, <<".">>, <<"-">>, <<"A">>}

\* any text put together from at most MaxPieces pieces
AnyResponses == {Flatten(ps) : ps \in SeqsUpTo(Pieces, MaxPieces)}

\* lines that may follow the STEPS: line
RawLines ==
    {<<"1", ".", " ", "Y">>, <<"-", " ", "Y">>, <<"Y">>, <<" ", "1", "2", ".", "Y", " ">>,
     <<"1", ".">>, <<"-">>, <<"v", "1", ".", "2">>, <<"2", "F", "A", " ", "i", "n", " ", "a", ".", "b">>}

\* STEPS: followed by the given lines
StepsSection(lines) == KwSteps \o Flatten([i \in 1..Len(lines) |-> <<"\n">> \o lines[i]])

StepsResponses == {StepsSection(lines) : lines \in SeqsUpTo(RawLines, MaxListed)}

NextParse ==
    \E content \in WellFormedResponses \cup AnyResponses \cup StepsResponses : planner_node(content)

SpecParse == Init /\ [][NextParse]_vars

\* ------------------------------------------------------------------ helpers of the properties

Count(s, x) == Cardinality({i \in 1..Len(s) : s[i] = x})

Ran(s) == {s[i] : i \in 1..Len(s)}

IsPrefix(s, t) == Len(s) <= Len(t) /\ SubSeq(t, 1, Len(s)) = s

HasPlan == plan # None
Steps == plan[1].steps
Cursor == plan[1].current_step

\* the node that ran in this step
Ran1(node) == trace' = Append(trace, node)

IsStepPrompt(m) == m.type = "human" /\ Head(m.content) = "Current assessment step: "

\* ------------------------------------------------------------------ properties

\* C1: the cursor of the plan changes only in the advance node and each time by
\* exactly +1 (nothing else of the plan changes), so it always equals the
\* number of advance nodes run so far and takes the values 0, 1, ..., N in
\* order; advance runs only below N, and when the reporter is entered (and
\* after it) exactly N advances have run.
C1_CursorMovesOnlyByAdvance ==
    /\ [][(HasPlan /\ plan' # plan) =>
            /\ Ran1("advance")
            /\ plan' = Some([plan[1] EXCEPT !.current_step = Cursor + 1])]_vars
    /\ [][Ran1("advance") => (Cursor < Len(Steps) /\ Cursor' = Cursor + 1)]_vars
    /\ [](HasPlan => Cursor = Count(trace, "advance"))
    /\ [](pc \in {"reporter", "END"} =>
            /\ Cursor = Len(Steps)
            /\ Count(trace, "advance") = Len(Steps))

\* a two-step run that has reached the end
C1_Witness ==
    /\ pc = "END"
    /\ Len(Steps) = 2
    /\ Cursor = 2
    /\ Count(trace, "advance") = 2

\* C2: in every reachable state of the graph 0 <= cursor <= len(steps), and
\* the advance node is never the next node when the plan is complete.
C2_CursorInRange ==
    /\ HasPlan => (0 <= Cursor /\ Cursor <= Len(Steps))
    /\ pc = "advance" => (HasPlan /\ ~is_complete(plan[1]))

\* advance has just moved the cursor of a two-step plan onto its end
C2_Witness ==
    /\ HasPlan
    /\ Len(Steps) = 2
    /\ Cursor = Len(Steps)
    /\ trace # <<>>
    /\ trace[Len(trace)] = "advance"

\* the tool calls of the executor's responses, in the order of the responses
RECURSIVE ExecCallsFrom(_)
ExecCallsFrom(i) ==
    IF i > Len(messages) THEN <<>>
    ELSE (IF IsStepPrompt(messages[i - 1]) THEN <<messages[i].tool_calls>> ELSE <<>>)
            \o ExecCallsFrom(i + 1)

ExecCalls == ExecCallsFrom(2)

Types == [i \in 1..Len(messages) |-> messages[i].type]

Last(s) == s[Len(s)]

\* a finished run over a one-step plan whose first executor response asked for
\* one tool and whose second asked for none
C3_Scenario ==
    /\ pc = "END"
    /\ Len(Steps) = 1
    /\ Len(ExecCalls) >= 2
    /\ Len(ExecCalls[1]) = 1
    /\ ExecCalls[2] = <<>>

C4_StraightToReport ==
    (HasPlan /\ Steps = <<>> /\ pc \in {"reporter", "END"}) =>
        /\ "executor" \notin Ran(trace)
        /\ "tools" \notin Ran(trace)
        /\ calls = <<>>

\* C5: right after an executor response, a response with tool calls always
\* leads to tools; the reporter is next only from an executor response without
\* tool calls on a complete plan; advance is next only without tool calls on a
\* plan that is not complete.
C5_DispatchPriority ==
    /\ (trace # <<>> /\ Last(trace) = "executor" /\ pc # "failed") =>
        LET last_message == Last(messages)
        IN  /\ last_message.tool_calls # <<>> => pc = "tools"
            /\ pc = "reporter" => (last_message.tool_calls = <<>> /\ is_complete(plan[1]))
            /\ pc = "advance" => (last_message.tool_calls = <<>> /\ ~is_complete(plan[1]))
    /\ pc \in {"tools", "reporter", "advance"} => (trace # <<>> /\ Last(trace) = "executor")

\* tool calls on a plan that is already complete go to tools
C5_Witness ==
    /\ pc = "tools"
    /\ HasPlan
    /\ Len(Steps) = 2
    /\ is_complete(plan[1])

C7_AppendOnly ==
    /\ [][IsPrefix(messages, messages')]_vars
    /\ [](\A i, j \in 1..Len(messages) : i # j => messages[i] # messages[j])

\* every kind of node has appended (or, for advance, returned) the transcript
C7_Witness ==
    /\ pc = "END"
    /\ {"planner", "executor", "tools", "advance", "reporter"} \subseteq Ran(trace)
    /\ Len(messages) >= 12

\* C8 as stated: whatever number of advance() calls is applied to a plan, its
\* cursor never exceeds len(steps) (advance() on a complete plan changes nothing).
C8_AdvanceStopsAtEnd == pc = "api" => Cursor <= Len(Steps)

\* C9 as stated: for every plan reached by advance() calls, is_complete() is
\* true iff cursor = len(steps), and next_step() returns steps[cursor] when the
\* plan is not complete and None otherwise.
C9_CompleteIffAtEnd ==
    pc = "api" =>
        /\ is_complete(plan[1]) <=> (Cursor = Len(Steps))
        /\ ret.op = "is_complete" => (ret.flag <=> (Cursor = Len(Steps)))
        /\ ret.op = "next_step" =>
              ret.val = (IF Cursor < Len(Steps) THEN Some(Steps[Cursor + 1]) ELSE None)

HandledToolTurns ==
    {i \in 1..Len(messages) :
        /\ messages[i].tool_calls # <<>>
        /\ ~(i = Len(messages) /\ pc \in {"tools", "failed"})}

\* every tool call whose tools node has run, in transcript order
HandledCalls ==
    Flatten([i \in 1..Len(messages) |->
                IF i \in HandledToolTurns THEN messages[i].tool_calls ELSE <<>>])

Contains(t, s) == \E i \in 0..(Len(t) - Len(s)) : SubSeq(t, i + 1, i + Len(s)) = s

EndsWith(t, s) == Len(t) >= Len(s) /\ SubSeq(t, Len(t) - Len(s) + 1, Len(t)) = s

\* C13: run_command calls subprocess.run once and returns a result for every
\* outcome of that call: the command's stdout, stderr and exit code as they
\* are when it exits; ("", "Command timed out after <timeout>s", -1) when the
\* timeout expires; ("", the exception's text, -1) on any other exception.
C13_RunCommandTotal ==
    ret.op = "run_command" =>
        LET outcome == arg.outcomes[1]
            result == ret.val.result
            seconds == IF arg.timeout = 30 THEN <<"3", "0">> ELSE <<"6", "0">>
        IN  /\ ret.val.attempts = 1
            /\ outcome.kind = "exit" =>
                    /\ result.stdout = outcome.stdout
                    /\ result.stderr = outcome.stderr
                    /\ result.returncode = outcome.returncode
            /\ outcome.kind = "timeout" =>
                    /\ result.stdout = <<>>
                    /\ result.stderr = <<"Command timed out after ">> \o seconds \o <<"s">>
                    /\ result.returncode = -1
            /\ outcome.kind = "error" =>
                    /\ result.stdout = <<>>
                    /\ result.stderr = outcome.text
                    /\ result.returncode = -1

\* the command timed out after 60 seconds and a second run would have succeeded
C13_Witness ==
    /\ ret.op = "run_command"
    /\ arg.timeout = 60
    /\ arg.outcomes[1].kind = "timeout"
    /\ arg.outcomes[2] = ExitOutcome(<<"o">>, <<>>, 0)
    /\ ret.val.result.returncode = -1

DefaultFlags == arg.include_stderr /\ arg.include_returncode

\* "Return code: <n>" as it is printed for the exit codes that are tried
ReturnCodeText(n) ==
    <<"Return code: ">> \o (CASE n = 0 -> <<"0">> [] n = 1 -> <<"1">> [] n = -1 -> <<"-", "1">>)

\* C14 as stated: a result with empty stdout and non-empty stderr is formatted
\* as exactly the stderr text, and a result with a non-zero exit code is
\* formatted with "Return code: <n>" in it.
C14_StderrAloneAndReturnCode ==
    (ret.op = "format_command_output" /\ DefaultFlags) =>
        /\ (arg.result.stdout = <<>> /\ arg.result.stderr # <<>>) => ret.val = arg.result.stderr
        /\ arg.result.returncode # 0 =>
                Contains(ret.val, ReturnCodeText(arg.result.returncode))

\* C14 amended: with the default flags, a result with empty stdout and
\* non-empty stderr is formatted as the stderr text, followed by
\* "\nReturn code: <n>" when the exit code n is not zero and by nothing when
\* it is zero; every result with a non-zero exit code is formatted with
\* "\nReturn code: <n>" at its end.
C14_StderrThenReturnCode ==
    (ret.op = "format_command_output" /\ DefaultFlags) =>
        LET n == arg.result.returncode
        IN  /\ (arg.result.stdout = <<>> /\ arg.result.stderr # <<>>) =>
                    ret.val = arg.result.stderr \o (IF n = 0 THEN <<>> ELSE <<"\n">> \o ReturnCodeText(n))
            /\ n # 0 => EndsWith(ret.val, <<"\n">> \o ReturnCodeText(n))
            /\ n = 0 => ~Contains(ret.val, <<"Return code: ">>)

\* the result of a command that timed out is formatted
C14_Witness ==
    /\ ret.op = "format_command_output"
    /\ DefaultFlags
    /\ arg.result = CommandResult(<<>>, <<"Command timed out after ", "3", "0", "s">>, -1)
    /\ ret.val = <<"Command timed out after ", "3", "0", "s", "\n", "Return code: ", "-", "1">>

\* C15 as stated: whenever a command of a tool gives a result with empty
\* stdout and non-empty stderr, the text the tool returns contains that
\* stderr text.
C15_ToolTextHasStderr ==
    ret.op = "tool" =>
        \A i \in 1..Len(arg.results) :
            (arg.results[i].stdout = <<>> /\ arg.results[i].stderr # <<>>) =>
                Contains(ret.val, arg.results[i].stderr)

\* the planner has just run on this response
Planned(content) ==
    /\ trace = <<"planner">>
    /\ Len(messages) = 2
    /\ messages[2].content = content

\* C16: a response made of the line "OBJECTIVE: <o>", the line "STEPS:" and k
\* lines "<i>. <s_i>" is parsed to the objective <o> and the steps s_1 .. s_k
\* in that order with the numbering taken off; numbered lines before the
\* STEPS: line are not steps.  <o> and <s_i> are non-empty one-line texts
\* without surrounding blanks, <o> without the keyword.
C16_WellFormedPlanParsed ==
    \A o \in ObjectiveTexts, steps \in SeqsUpTo(ListedSteps, MaxListed), where \in 0..2 :
        Planned(WellFormed(o, steps, where)) =>
            /\ plan = Some([objective |-> o, steps |-> steps, current_step |-> 0])
            /\ phase = "executing"

\* two steps with digits and a dot in them, and a numbered line before STEPS:
C16_Witness ==
    /\ Planned(WellFormed(<<"A", " ", "X">>, <<<<"v", "1", ".", "2">>, <<"2", " ", "Z">>>>, 2))
    /\ plan # None
    /\ Len(plan[1].steps) = 2

\* the lines the parser goes through
LinesOf(content) == Split(Strip(content), "\n")

HasLine(content, keyword) ==
    \E i \in 1..Len(LinesOf(content)) : StartsWith(LinesOf(content)[i], keyword)

\* C17: whatever the response text, the planner leaves a plan and the phase
\* executing; without a line starting with "OBJECTIVE:" the objective is
\* "Security assessment", and without a line starting with "STEPS:" the plan
\* has no steps.
C17_MissingSectionsTolerated ==
    trace = <<"planner">> =>
        LET content == messages[2].content
        IN  /\ plan # None
            /\ phase = "executing"
            /\ pc = "executor"
            /\ ~HasLine(content, KwObjective) => plan[1].objective = DefaultObjective
            /\ ~HasLine(content, KwSteps) => plan[1].steps = <<>>

\* a numbered line and no section at all
C17_Witness ==
    /\ Planned(<<"1", ".", "A">>)
    /\ plan = Some([objective |-> DefaultObjective, steps |-> <<>>, current_step |-> 0])

\* the command line names no supported provider, or gives no credential for
\* the provider: no --api-key (for Vertex, no --project) and the provider's
\* environment variable unset
NoCredential ==
    /\ arg.provider \in Providers
    /\ ~Truthy(arg.api_key)
    /\ arg.provider = "vertex" => ~Truthy(arg.project)
    /\ ~Truthy(environ[EnvVar(arg.provider)])

ConfigurationError == arg # None /\ (arg.provider \notin Providers \/ NoCredential)

\* C18 as stated: with an unsupported provider name, or with no credential
\* for any of the four providers, no chat model is ever called, no node and
\* no tool runs, and the process never ends with status 0.
C18_ConfigurationErrorsFatal ==
    ConfigurationError =>
        /\ client = None
        /\ trace = <<>>
        /\ calls = <<>>
        /\ status # Some(0)
        /\ status # None => out # <<>>

\* C19: the chat model is built with the --api-key value when one is given
\* and with the provider's environment variable otherwise (Anthropic, OpenAI,
\* Google), and with the --model value when one is given and the provider's
\* default model otherwise (all four providers).
C19_ExplicitFirst ==
    client # None =>
        LET llm == client[1]
            default == CASE arg.provider = "anthropic" -> <<"claude-sonnet-4-20250514">>
                         [] arg.provider = "openai" -> <<"gpt-4o">>
                         [] arg.provider \in {"google", "vertex"} -> <<"gemini-2.0-flash">>
            variable == CASE arg.provider = "anthropic" -> "ANTHROPIC_API_KEY"
                          [] arg.provider = "openai" -> "OPENAI_API_KEY"
                          [] arg.provider \in {"google", "vertex"} -> "GOOGLE_API_KEY"
        IN  /\ llm.provider = arg.provider
            /\ llm.model = (IF arg.model \notin {None, Some(<<>>)} THEN arg.model[1] ELSE default)
            /\ arg.provider # "vertex" =>
                  llm.api_key = (IF arg.api_key \notin {None, Some(<<>>)} THEN arg.api_key
                                 ELSE Some(<<"env:", variable>>))

\* an explicit key and an explicit model were given while the variable was set
C19_Witness ==
    /\ client # None
    /\ arg.provider = "openai"
    /\ arg.api_key = Some(<<"sk-arg">>)
    /\ environ["OPENAI_API_KEY"] # None
    /\ client[1].api_key = Some(<<"sk-arg">>)
    /\ client[1].model = <<"my-model">>

\* C20: once an LLM call has failed the error is printed, the exit status is
\* 1, nothing else happens in the run, the transcript holds no report and
\* "Assessment Complete" is not printed.
C20_LLMFailureStopsRun ==
    /\ [](pc = "failed" =>
            /\ Last(out) = "Error during assessment"
            /\ status = Some(1)
            /\ "Assessment Complete" \notin Ran(out)
            /\ phase # "complete"
            /\ \A i \in 1..Len(messages) : messages[i].content # <<"report">>)
    /\ []("Error during assessment" \in Ran(out) => pc = "failed")
    /\ [][pc = "failed" => FALSE]_vars

\* the executor's LLM call failed after a tool had run
C20_Witness ==
    /\ pc = "failed"
    /\ client # None
    /\ calls = <<"find_ssh_keys">>
    /\ Last(trace) = "tools"
    /\ status = Some(1)

\* C21: the plan is created once, by the planner, from no plan; from then on
\* there is always a plan with the same objective and the same steps; the
\* executor, tools and reporter nodes leave the whole plan as it is, and a
\* step that changes the plan is the planner creating it or advance changing
\* the cursor.
C21_PlanFrame ==
    /\ [][Ran1("planner") => (plan = None /\ plan' # None)]_vars
    /\ [](Count(trace, "planner") <= 1)
    /\ [](HasPlan <=> "planner" \in Ran(trace))
    /\ [][HasPlan =>
            /\ HasPlan'
            /\ plan'[1].objective = plan[1].objective
            /\ plan'[1].steps = plan[1].steps]_vars
    /\ [][(Ran1("executor") \/ Ran1("tools") \/ Ran1("reporter")) => plan' = plan]_vars
    /\ [][plan' # plan => (Ran1("planner") \/ Ran1("advance"))]_vars

\* the plan A: Y, Z after its run, tools included: only the cursor has moved
C21_Witness ==
    /\ phase = "complete"
    /\ "tools" \in Ran(trace)
    /\ plan = Some([objective |-> <<"A">>, steps |-> <<<<"Y">>, <<"Z">>>>, current_step |-> 2])

\* the executor responses that ask for no tool
Answers == Count(ExecCalls, <<>>)

\* C24: the reporter is entered only from an executor turn taken on a complete
\* plan, that is with cursor = N and "None" as the step of its prompt, and
\* after the last advance; when the reporter is next or has run, exactly N + 1
\* executor responses without tool calls have been given.
C24_ExecutorRunsOnCompletePlan ==
    /\ [][pc' = "reporter" =>
            /\ Ran1("executor")
            /\ Cursor = Len(Steps)
            /\ next_step(plan[1]) = None
            /\ messages'[Len(messages') - 1].content = StepPrompt(None)
            /\ Count(trace, "advance") = Len(Steps)]_vars
    /\ [](pc \in {"reporter", "END"} => Answers = Len(Steps) + 1)
    /\ [](HasPlan => Answers <= Len(Steps) + 1)

\* a run over two steps, without any tool, has been answered three times
C24_Witness ==
    /\ pc = "END"
    /\ Len(Steps) = 2
    /\ calls = <<>>
    /\ trace = <<"planner", "executor", "advance", "executor", "advance", "executor", "reporter">>
    /\ Answers = 3

\* C25: whenever the executor has run, should_continue is evaluated on a
\* state that has a plan and phase "executing"; it returns tools, report or
\* advance, never "executor", so no executor turn follows another directly.
C25_FallbackUnreachable ==
    /\ [][Ran1("executor") =>
            /\ HasPlan
            /\ phase = "executing"
            /\ should_continue(messages', plan', phase') \in {"tools", "report", "advance"}
            /\ pc' \in {"tools", "reporter", "advance"}]_vars
    /\ [](\A i \in 1..(Len(trace) - 1) :
            trace[i] = "executor" => trace[i + 1] \in {"tools", "advance", "reporter"})
    /\ [](pc = "executor" => (trace # <<>> /\ Last(trace) \in {"planner", "tools", "advance"}))

\* should_continue has returned each of tools, advance and report in one run
C25_Witness ==
    /\ pc = "reporter"
    /\ phase = "executing"
    /\ \E i, j \in 1..Len(trace) :
          /\ i < j
          /\ trace[i] = "tools"
          /\ trace[j] = "advance"
    /\ Last(trace) = "executor"

\* C26: the planner appends 1 entry, the LLM's response, and no system entry
\* is ever stored; an executor turn appends 2, its step prompt and then the
\* response; the tools node appends as many entries as tool calls were
\* requested; advance appends none; the reporter appends 2; so with E executor
\* turns and T tool calls handled the transcript has 1 + 1 + 2E + T entries
\* before the reporter and 1 + 1 + 2E + T + 2 after it.
C26_TranscriptGrowth ==
    /\ [][Ran1("planner") =>
            (Len(messages') = Len(messages) + 1 /\ Last(messages').type = "ai")]_vars
    /\ [][Ran1("executor") =>
            /\ Len(messages') = Len(messages) + 2
            /\ IsStepPrompt(messages'[Len(messages) + 1])
            /\ Last(messages').type = "ai"]_vars
    /\ [][Ran1("tools") =>
            Len(messages') = Len(messages) + Len(Last(messages).tool_calls)]_vars
    /\ [][Ran1("advance") => messages' = messages]_vars
    /\ [][Ran1("reporter") =>
            /\ Len(messages') = Len(messages) + 2
            /\ messages'[Len(messages) + 1].content = ReportPrompt
            /\ Last(messages').type = "ai"]_vars
    /\ [](\A i \in 1..Len(messages) : messages[i].type \in {"human", "ai", "tool"})
    /\ [](HasPlan =>
            Len(messages) = 1 + 1 + 2 * Count(trace, "executor") + Len(HandledCalls)
                              + (IF "reporter" \in Ran(trace) THEN 2 ELSE 0))

\* a completed run with three executor turns and two tool calls: 12 entries
C26_Witness ==
    /\ pc = "END"
    /\ Count(trace, "executor") = 3
    /\ Len(HandledCalls) = 2
    /\ Len(messages) = 12

\* s without the digits it starts with
RECURSIVE DropDigits(_)
DropDigits(s) == IF s # <<>> /\ Head(s) \in Digits THEN DropDigits(Tail(s)) ELSE s

\* a line without its list marker: a leading number and dot, or a leading "-",
\* and the blanks around
WithoutMarker(line) ==
    LET text == Strip(line)
    IN  IF text # <<>> /\ Head(text) \in Digits /\ StartsWith(DropDigits(text), <<".">>)
            THEN Strip(Tail(DropDigits(text)))
        ELSE IF StartsWith(text, <<"-">>) THEN Strip(Tail(text))
        ELSE text

RECURSIVE NonEmpty(_)
NonEmpty(ss) ==
    IF ss = <<>> THEN <<>>
    ELSE (IF Head(ss) # <<>> THEN <<Head(ss)>> ELSE <<>>) \o NonEmpty(Tail(ss))

\* C23 as stated: the steps of the plan are the lines after STEPS: without
\* their list marker (a leading number and dot, or a leading "-") and the
\* blanks around, the rest of each line as it is, lines that come out empty
\* left out; no step is the empty string.
C23_OnlyMarkerRemoved ==
    /\ \A lines \in SeqsUpTo(RawLines, MaxListed) :
          Planned(StepsSection(lines)) =>
              plan[1].steps = NonEmpty([i \in 1..Len(lines) |-> WithoutMarker(lines[i])])
    /\ (trace = <<"planner">>) => \A i \in 1..Len(plan[1].steps) : plan[1].steps[i] # <<>>

\* the assessments started so far
Started == Count(out, "Starting macOS Security Assessment")

\* a line has just been read at the prompt
ReadLine == pc = "prompt" /\ ret'.op = "input" /\ Prompts' = Prompts + 1

\* the quit words in the letter cases that are typed, blanks around allowed
TypedQuit(text) ==
    Strip(text) \in {<<"q", "u", "i", "t">>, <<"E", "X", "I", "T">>, <<"Q">>, <<"q">>, <<"e", "x", "i", "t">>}

\* C22: a line that is quit, exit or q in any letter case, or a
\* KeyboardInterrupt at the prompt or during an assessment, ends the session:
\* "Goodbye!" is the last line printed, no assessment is started by it or
\* after it; an empty line starts no assessment and leaves the session at its
\* prompt.
C22_SessionInterruptible ==
    /\ [][(ReadLine /\ TypedQuit(ret'.val)) =>
            /\ pc' = "exited"
            /\ out' = out \o <<"Objective:", "Goodbye!">>
            /\ Started' = Started]_vars
    /\ [][(ret'.op = "KeyboardInterrupt" /\ ret.op # "KeyboardInterrupt") =>
            /\ pc' = "exited"
            /\ Last(out') = "Goodbye!"
            /\ Started' = Started]_vars
    /\ [][(ReadLine /\ Strip(ret'.val) = <<>>) =>
            /\ pc' = "prompt"
            /\ Started' = Started
            /\ UNCHANGED <<messages, plan, phase>>]_vars
    /\ [][pc = "exited" => FALSE]_vars
    /\ [](pc = "exited" => (Last(out) = "Goodbye!" /\ Count(out, "Goodbye!") = 1))

\* a second assessment was interrupted after its tool had run
C22_Witness ==
    /\ pc = "exited"
    /\ ret.op = "KeyboardInterrupt"
    /\ "Assessment Complete" \in Ran(out)
    /\ Started = 2
    /\ calls = <<"find_ssh_keys">>
    /\ Last(out) = "Goodbye!"

\* C27: in an interactive session, once an assessment has failed (an LLM
\* call raised, or no API key was found) the process has exit status 1, the
\* error is the last line printed, no line is read and nothing runs
\* afterwards, and "Goodbye!" is not printed.
C27_InteractiveErrorExits ==
    /\ []((Interactive /\ "Error during assessment" \in Ran(out)) =>
            /\ pc = "failed"
            /\ status = Some(1)
            /\ Last(out) = "Error during assessment"
            /\ "Goodbye!" \notin Ran(out))
    /\ []((Interactive /\ pc = "failed") => "Error during assessment" \in Ran(out))
    /\ [][(Interactive /\ pc = "failed") => (Prompts' = Prompts /\ UNCHANGED vars)]_vars

\* the session has no API key: its first assessment failed before any LLM call
C27_Witness ==
    /\ Interactive
    /\ pc = "failed"
    /\ client = None
    /\ Started = 1
    /\ status = Some(1)
    /\ Last(out) = "Error during assessment"

\* a new assessment has just been started
Starts == Started' = Started + 1

\* C28: every assessment of a session starts from the transcript that holds
\* its own objective and nothing else, no plan and phase planning, whatever
\* the assessment before left behind, and starting it leaves the LLM
\* configuration as it is; during an assessment the first entry of the
\* transcript is the objective it was started with.
C28_AssessmentsIndependent ==
    /\ [][Starts =>
            /\ Len(messages') = 1
            /\ messages'[1].type = "human"
            /\ messages'[1].content = Strip(ret'.val)
            /\ plan' = None
            /\ phase' = "planning"
            /\ pc' = "planner"
            /\ UNCHANGED <<config, environ>>]_vars
    /\ [][(messages # <<>> /\ ~Starts) =>
            (messages' # <<>> /\ messages'[1] = messages[1])]_vars
    /\ [](\A i \in 1..Len(messages) :
            (messages[i].type = "human" /\ ~IsStepPrompt(messages[i])
                /\ messages[i].content # ReportPrompt) => i = 1)
    /\ [][config' = config]_vars

\* a second assessment has been started after a first one that ran to its
\* report with a tool call
C28_Witness ==
    /\ Started = 2
    /\ pc = "planner"
    /\ "Assessment Complete" \in Ran(out)
    /\ client # None
    /\ messages = <<[id |-> 1, type |-> "human", content |-> <<"q", "u", "i", "t", "s">>,
                     tool_calls |-> <<>>]>>
    /\ plan = None

====
